---- MODULE Spec2Model ----
(***************************************************************************)
(* Credential lifecycle of the Concept2 Logbook MCP server                 *)
(* (src/src/oauth.ts, second definition of the module, lines 381-829).     *)
(*                                                                         *)
(* Time.  Every timestamp and duration of the model is in seconds: a model *)
(* value t stands for the source's t * 1000 milliseconds.  Date.now() is   *)
(* the variable now, `expires_in * 1000` ms is expires_in model units, the *)
(* default bufferMs = 60000 is DefaultBufferMs = 60, and the static        *)
(* token's 365 * 24 * 60 * 60 * 1000 ms is YearMs = 365 * 24 * 60 * 60.    *)
(*                                                                         *)
(* Atomicity.  JavaScript runs one callback to completion and drains the   *)
(* microtask queue before the next I/O callback, so a handler is one       *)
(* action from one await on I/O to the next.  The two awaits on one HTTP   *)
(* response (headers, then body) are one action: nothing is read or        *)
(* written between them.                                                   *)
(***************************************************************************)
EXTENDS Integers, Sequences, FiniteSets, TLC

\* ------------------------------------------------------------------ bounds
NumCallers == 2
NumFlows == 2
MaxTicks == 2
MaxPosts == 2

Callers == 1..NumCallers
Flows == 1..NumFlows

\* --------------------------------------------------------------- constants
DefaultBufferMs == 60
YearMs == 365 * 24 * 60 * 60
\* The clock advances in steps of half the default buffer.
TickMs == DefaultBufferMs \div 2
OAUTH_SCOPES == "user:read,results:read"

\* Values the environment may supply.
StaticTokens == {"", "abc123"}
ExpiresInValues == {0, 60, 90}
ScopeValues == {"undefined", "user:read"}
BufferValues == {0, 30, 60}

VARIABLES
  env,               \* process environment read at module load
  usingStaticToken,  \* TokenManager.usingStaticToken
  token,             \* TokenManager.token
  tokenFile,         \* the file TOKEN_FILE on disk
  now,               \* Date.now()
  calls,             \* the getAccessToken() invocations
  refreshPosts,      \* POSTs with grant_type=refresh_token sent so far
  exchangePosts,     \* POSTs with grant_type=authorization_code sent so far
  issued,            \* tokens minted by the token endpoint so far
  flow,              \* the runAuthorizationFlow() invocations
  promise,           \* the promise returned by runCallbackServer
  timer,             \* the setTimeout handle of runCallbackServer
  server,            \* the http.Server of runCallbackServer
  lateSettle,        \* resolve/reject has been called on a promise already settled
  browser,           \* open(authUrl) has launched a browser
  host,              \* the Node process: "running" or "crashed"
  response           \* the callback server's reply on its way to the observed client

vars == <<env, usingStaticToken, token, tokenFile, now, calls, refreshPosts,
          exchangePosts, issued, flow, promise, timer, server, lateSettle,
          browser, host, response>>

tokenVars == <<env, usingStaticToken, token, tokenFile, now, calls,
               refreshPosts, exchangePosts, issued>>
flowVars == <<flow, promise, timer, server, lateSettle, browser, host, response>>

\* ------------------------------------------------------------- token data
NULL == [absent |-> TRUE]

TokenData(a, r, e, ty, s) ==
  [access_token |-> a, refresh_token |-> r, expires_at |-> e,
   token_type |-> ty, scope |-> s]

\* `x || d` on a possibly missing string.
OrElse(x, d) == IF x = "undefined" \/ x = "" THEN d ELSE x

\* Mutant of TokenFromResponse: expires_at without Date.now().
TokenFromResponseNoNow(data, t) ==
  TokenData(data.access_token, data.refresh_token, data.expires_in,
            OrElse(data.token_type, "Bearer"), OrElse(data.scope, ""))

\* The record refreshToken and exchangeCode build from a token response.
TokenFromResponse(data, t) ==
  TokenData(data.access_token, data.refresh_token, t + data.expires_in,
            OrElse(data.token_type, "Bearer"), OrElse(data.scope, ""))

\* A success body of the token endpoint: the k-th token it mints.
ResponseData(k, ein, sc) ==
  [access_token |-> "at" \o ToString(k), refresh_token |-> "rt" \o ToString(k),
   expires_in |-> ein, token_type |-> "Bearer", scope |-> sc]

\* ------------------------------------------------------------- token file
NoFile == [exists |-> FALSE]
FileOf(text) == [exists |-> TRUE, text |-> text]

\* Mutant of JSONStringify: the scope member is not written.
JSONStringifyNoScope(t) ==
  << <<"access_token", t.access_token>>, <<"refresh_token", t.refresh_token>>,
     <<"expires_at", t.expires_at>>, <<"token_type", t.token_type>> >>

\* JSON text is modelled as the sequence of its members, in order.
JSONStringify(t) ==
  << <<"access_token", t.access_token>>, <<"refresh_token", t.refresh_token>>,
     <<"expires_at", t.expires_at>>, <<"token_type", t.token_type>>,
     <<"scope", t.scope>> >>

\* A file cut short by a failed write: no JSON value.
Truncated == << <<"{">> >>

\* A file that exists but that readFileSync cannot read (EACCES).
Unreadable == [exists |-> TRUE, unreadable |-> TRUE]

IsJSON(text) == \A i \in 1..Len(text) : Len(text[i]) = 2

Member(text, key) ==
  LET I == {i \in 1..Len(text) : text[i][1] = key}
  IN  text[CHOOSE i \in I : \A j \in I : j <= i][2]

JSONParse(text) ==
  [k \in {text[i][1] : i \in 1..Len(text)} |-> Member(text, k)]

\* Mutant of loadTokens: a file that cannot be read or parsed leaves an
\* empty record held.
loadTokensEmptyRecord(f, t) ==
  IF f.exists
  THEN IF f # Unreadable /\ IsJSON(f.text)
       THEN JSONParse(f.text)
       ELSE TokenData("", "", 0, "", "")
  ELSE t

\* loadTokens: the token held after reading file f, starting from held t.
\* readFileSync and JSON.parse throw inside one try: either failure leaves
\* no token held.
loadTokens(f, t) ==
  IF f.exists
  THEN IF f # Unreadable /\ IsJSON(f.text) THEN JSONParse(f.text) ELSE NULL
  ELSE t

\* Mutant of WriteOutcomes: the text is appended to the file.
WriteOutcomesAppend(f, text) ==
  {IF f.exists /\ f # Unreadable THEN FileOf(f.text \o text) ELSE FileOf(text),
   f, FileOf(Truncated)}

\* The outcomes of writeFileSync(TOKEN_FILE, text) over the file f.
WriteOutcomes(f, text) == {FileOf(text), f, FileOf(Truncated)}

\* saveTokens: the files that may result from saving held token t over f.
saveTokens(t, f) ==
  IF t # NULL THEN WriteOutcomes(f, JSONStringify(t)) ELSE {f}

\* clearTokens: the files that may result (unlinkSync may throw).
clearTokensFiles(f) == IF f.exists THEN {NoFile, f} ELSE {f}

\* Mutant of clearTokens: the in-memory token is kept.
clearTokensKeepsToken(t, f) ==
  {[token |-> t, file |-> g] : g \in clearTokensFiles(f)}

\* clearTokens over held token t and file f: the states that may result.
\* Nothing is thrown: the unlink error is caught.
clearTokens(t, f) ==
  {[token |-> NULL, file |-> g] : g \in clearTokensFiles(f)}

\* ------------------------------------------------------------------ queries
\* Mutant of hasValidToken: an expired token does not count.
hasValidTokenUnexpired == token # NULL /\ now < token.expires_at

hasValidToken == token # NULL

getTokenInfo == token

\* Mutant of isExpired: the boundary counts as not expired.
isExpiredStrict(bufferMs) ==
  IF token = NULL THEN TRUE ELSE now > token.expires_at - bufferMs

\* Mutant of isExpired: the buffer is ignored.
isExpiredNoBuffer(bufferMs) ==
  IF token = NULL THEN TRUE ELSE now >= token.expires_at

isExpired(bufferMs) ==
  IF token = NULL THEN TRUE ELSE now >= token.expires_at - bufferMs

isUsingStaticToken == usingStaticToken

clientConfigured == env.CLIENT_ID # "" /\ env.CLIENT_SECRET # ""

needsAuthorization ==
  IF usingStaticToken THEN FALSE
  ELSE IF ~clientConfigured THEN FALSE
  ELSE token = NULL

\* ------------------------------------------------------------ construction
Idle == [pc |-> "idle"]

\* No reply is on its way.
NoResponse == [sent |-> FALSE]

StaticToken(tok, t) == TokenData(tok, "", t + YearMs, "Bearer", OAUTH_SCOPES)

InitialFiles ==
  {NoFile, FileOf(Truncated)}
    \cup {FileOf(JSONStringify(TokenData("at0", "rt0", e, "Bearer", "user:read"))) :
            e \in {60, 90}}

\* The files an authorization flow starts from: none, or a token still valid.
FlowInitialFiles ==
  {f \in InitialFiles : f = NoFile \/ (IsJSON(f.text) /\ JSONParse(f.text).expires_at > DefaultBufferMs)}

Environments ==
  [STATIC_ACCESS_TOKEN : StaticTokens, CLIENT_ID : {"", "id"},
   CLIENT_SECRET : {"", "secret"}]

\* Mutant of Constructor: configured client credentials take priority over
\* the static token.
ConstructorOAuthWins(e, f) ==
  /\ env = e
  /\ tokenFile = f
  /\ now = 0
  /\ IF e.STATIC_ACCESS_TOKEN # "" /\ (e.CLIENT_ID = "" \/ e.CLIENT_SECRET = "")
     THEN /\ token = StaticToken(e.STATIC_ACCESS_TOKEN, 0)
          /\ usingStaticToken = TRUE
     ELSE /\ token = loadTokens(f, NULL)
          /\ usingStaticToken = FALSE

Constructor(e, f) ==
  /\ env = e
  /\ tokenFile = f
  /\ now = 0
  /\ IF e.STATIC_ACCESS_TOKEN # ""
     THEN /\ token = StaticToken(e.STATIC_ACCESS_TOKEN, 0)
          /\ usingStaticToken = TRUE
     ELSE /\ token = loadTokens(f, NULL)
          /\ usingStaticToken = FALSE

InitRest ==
  /\ calls = [c \in Callers |-> Idle]
  /\ refreshPosts = 0
  /\ exchangePosts = 0
  /\ issued = 0
  /\ flow = [f \in Flows |-> Idle]
  /\ promise = [f \in Flows |-> [status |-> "none"]]
  /\ timer = [f \in Flows |-> "none"]
  /\ server = [f \in Flows |-> "none"]
  /\ lateSettle = FALSE
  /\ browser = FALSE
  /\ host = "running"
  /\ response = NoResponse

Init == (\E e \in Environments, f \in InitialFiles : Constructor(e, f)) /\ InitRest

\* ------------------------------------------------------------------- clock
Tick ==
  /\ now < MaxTicks * TickMs
  /\ now' = now + TickMs
  /\ UNCHANGED <<env, usingStaticToken, token, tokenFile, calls, refreshPosts,
                 exchangePosts, issued>>
  /\ UNCHANGED flowVars

\* ---------------------------------------------------------- getAccessToken
Done(r) == [pc |-> "done", result |-> r]

\* A finished getAccessToken or exchangeCode: what it returned or threw, and
\* the HTTP answer its request got ("none": no request, or no answer).
Returned(r, h) == [pc |-> "done", result |-> r, http |-> h]

\* Mutant of GetAccessToken: the expiry check (true when no token is held)
\* comes before the check that a token is held.
GetAccessTokenExpiryFirst(c) ==
  /\ calls[c].pc = "idle"
  /\ IF usingStaticToken /\ token # NULL
     THEN /\ calls' = [calls EXCEPT ![c] = Returned(token.access_token, "none")]
          /\ UNCHANGED refreshPosts
     ELSE IF isExpired(DefaultBufferMs)
     THEN /\ refreshPosts < MaxPosts
          /\ refreshPosts' = refreshPosts + 1
          /\ calls' = [calls EXCEPT ![c] =
                         [pc |-> "refreshing",
                          sent |-> IF token = NULL THEN "undefined" ELSE token.refresh_token]]
     ELSE /\ calls' = [calls EXCEPT ![c] = Returned(token.access_token, "none")]
          /\ UNCHANGED refreshPosts
  /\ UNCHANGED <<env, usingStaticToken, token, tokenFile, now, exchangePosts, issued>>
  /\ UNCHANGED flowVars

\* Mutant of GetAccessToken: no check that a token is held; reading
\* access_token of null throws a TypeError.
GetAccessTokenNoTokenCheck(c) ==
  /\ calls[c].pc = "idle"
  /\ IF token = NULL
     THEN /\ calls' = [calls EXCEPT ![c] = Returned("TypeError", "none")]
          /\ UNCHANGED refreshPosts
     ELSE IF usingStaticToken
     THEN /\ calls' = [calls EXCEPT ![c] = Returned(token.access_token, "none")]
          /\ UNCHANGED refreshPosts
     ELSE IF isExpired(DefaultBufferMs)
     THEN /\ refreshPosts < MaxPosts
          /\ refreshPosts' = refreshPosts + 1
          /\ calls' = [calls EXCEPT ![c] =
                         [pc |-> "refreshing", sent |-> token.refresh_token]]
     ELSE /\ calls' = [calls EXCEPT ![c] = Returned(token.access_token, "none")]
          /\ UNCHANGED refreshPosts
  /\ UNCHANGED <<env, usingStaticToken, token, tokenFile, now, exchangePosts, issued>>
  /\ UNCHANGED flowVars

\* getAccessToken up to its first await: the token check, the static
\* shortcut, the expiry check and, when expired, refreshToken's POST.
GetAccessToken(c) ==
  /\ calls[c].pc = "idle"
  /\ IF token = NULL
     THEN /\ calls' = [calls EXCEPT ![c] = Returned("NotAuthenticated", "none")]
          /\ UNCHANGED refreshPosts
     ELSE IF usingStaticToken
     THEN /\ calls' = [calls EXCEPT ![c] = Returned(token.access_token, "none")]
          /\ UNCHANGED refreshPosts
     ELSE IF isExpired(DefaultBufferMs)
     THEN /\ refreshPosts < MaxPosts
          /\ refreshPosts' = refreshPosts + 1
          /\ calls' = [calls EXCEPT ![c] =
                         [pc |-> "refreshing", sent |-> token.refresh_token]]
     ELSE /\ calls' = [calls EXCEPT ![c] = Returned(token.access_token, "none")]
          /\ UNCHANGED refreshPosts
  /\ UNCHANGED <<env, usingStaticToken, token, tokenFile, now, exchangePosts, issued>>
  /\ UNCHANGED flowVars

\* The refresh POST is answered with a success status: the new record is
\* installed and saved, and getAccessToken returns this.token.access_token.
RefreshOk(c) ==
  /\ calls[c].pc = "refreshing"
  /\ \E ein \in ExpiresInValues, sc \in ScopeValues :
       /\ issued' = issued + 1
       /\ token' = TokenFromResponse(ResponseData(issued + 1, ein, sc), now)
  /\ tokenFile' \in saveTokens(token', tokenFile)
  /\ calls' = [calls EXCEPT ![c] = Returned(token'.access_token, "ok")]
  /\ UNCHANGED <<env, usingStaticToken, now, refreshPosts, exchangePosts>>
  /\ UNCHANGED flowVars

\* Mutant of RefreshFailed: the error is thrown without clearTokens().
RefreshFailedKeepsToken(c) ==
  /\ calls[c].pc = "refreshing"
  /\ calls' = [calls EXCEPT ![c] = Returned("RefreshFailed", "error")]
  /\ UNCHANGED <<env, usingStaticToken, token, tokenFile, now, refreshPosts,
                 exchangePosts, issued>>
  /\ UNCHANGED flowVars

\* The refresh POST is answered with a non-success status: clearTokens,
\* then the refresh-failed error propagates out of getAccessToken.
RefreshFailed(c) ==
  /\ calls[c].pc = "refreshing"
  /\ \E s \in clearTokens(token, tokenFile) :
       /\ token' = s.token
       /\ tokenFile' = s.file
  /\ calls' = [calls EXCEPT ![c] = Returned("RefreshFailed", "error")]
  /\ UNCHANGED <<env, usingStaticToken, now, refreshPosts, exchangePosts, issued>>
  /\ UNCHANGED flowVars

\* Mutant of RefreshFetchError: a rejected fetch clears the tokens, as a
\* non-success answer does.
RefreshFetchErrorClearsTokens(c) ==
  /\ calls[c].pc = "refreshing"
  /\ \E s \in clearTokens(token, tokenFile) :
       /\ token' = s.token
       /\ tokenFile' = s.file
  /\ calls' = [calls EXCEPT ![c] = Returned("FetchError", "none")]
  /\ UNCHANGED <<env, usingStaticToken, now, refreshPosts, exchangePosts, issued>>
  /\ UNCHANGED flowVars

\* fetch rejects (no HTTP response): the rejection propagates.
RefreshFetchError(c) ==
  /\ calls[c].pc = "refreshing"
  /\ calls' = [calls EXCEPT ![c] = Returned("FetchError", "none")]
  /\ UNCHANGED <<env, usingStaticToken, token, tokenFile, now, refreshPosts,
                 exchangePosts, issued>>
  /\ UNCHANGED flowVars

\* The caller of getAccessToken takes the result; it may call again.
Return(c) ==
  /\ calls[c].pc = "done"
  /\ calls' = [calls EXCEPT ![c] = Idle]
  /\ UNCHANGED <<env, usingStaticToken, token, tokenFile, now, refreshPosts,
                 exchangePosts, issued>>
  /\ UNCHANGED flowVars

\* ------------------------------------------------------------- clearTokens
\* handleLogout -> tokenManager.clearTokens()
ClearTokens ==
  /\ \E s \in clearTokens(token, tokenFile) :
       /\ token' = s.token
       /\ tokenFile' = s.file
  /\ UNCHANGED <<env, usingStaticToken, now, calls, refreshPosts, exchangePosts, issued>>
  /\ UNCHANGED flowVars

NextToken ==
  \/ Tick
  \/ ClearTokens
  \/ \E c \in Callers :
       \/ GetAccessToken(c)
       \/ RefreshOk(c)
       \/ RefreshFailed(c)
       \/ RefreshFetchError(c)
       \/ Return(c)

\* ------------------------------------------------------- runCallbackServer
\* Mutant of generateState: every invocation draws the same value.
generateStateShared(f) == "nonce"

\* Mutant of generateState: the nonce is the empty string.
generateStateEmpty(f) == ""

\* generateState: 32 random bytes, hex encoded.  The random source is
\* modelled as fresh: each invocation draws a value no other one draws.
generateState(f) == "nonce" \o ToString(f)

\* What a callback request may carry; "null" is searchParams.get's null.
ErrorParams == {"null", "access_denied"}
ErrorDescParams == {"null", "User declined"}
CodeParams == {"null", "c1"}
StateParams == {"null", "forged"} \cup {generateState(f) : f \in Flows}

\* The handler reads the query of a /callback request only; with an error
\* parameter it reads error_description and nothing else; without one it
\* reads code and state.  Requests that differ in a parameter the handler
\* does not read are the same request here.
Requests ==
  [path : {"/other"}, error : {"null"}, error_description : {"null"},
   code : {"null"}, state : {"null"}]
  \cup [path : {"/callback"}, error : ErrorParams \ {"null"},
        error_description : ErrorDescParams, code : CodeParams, state : {"null"}]
  \cup [path : {"/callback"}, error : {"null"}, error_description : {"null"},
        code : CodeParams, state : StateParams]

\* Requests with a parameter given without a value (`?error=`, `?code=`):
\* searchParams.get yields "", which the handler treats as it treats null.
EmptyValueRequests ==
  [path : {"/callback"}, error : {"null", ""}, error_description : {"null"},
   code : CodeParams \cup {""}, state : StateParams] \ Requests

\* `x || d` on a value of searchParams.get.
GetOr(x, d) == IF x = "null" \/ x = "" THEN d ELSE x

Pending == [status |-> "pending"]
Resolved(code, receivedState) ==
  [status |-> "resolved", code |-> code, receivedState |-> receivedState]
Rejected(msg) == [status |-> "rejected", error |-> msg]

\* Mutant of Settle: the last settlement wins.
SettleAlways(p, outcome) == outcome

\* resolve(...) / reject(...) of the promise executor: a promise takes the
\* first settlement and ignores every later one.
Settle(p, outcome) == IF p.status = "pending" THEN outcome ELSE p

\* The promise of flow f after resolve/reject is called with outcome.
SettlePromise(f, outcome) ==
  /\ promise' = [promise EXCEPT ![f] = Settle(promise[f], outcome)]
  /\ lateSettle' = (lateSettle \/ promise[f].status # "pending")

\* server.close(): stops listening; no effect on a server not listening.
Close(s) == IF s = "listening" THEN "closed" ELSE s

\* Mutant of ClearTimeout: the timer is left armed.
ClearTimeoutNoOp(t) == t

\* clearTimeout(timeout): no effect on a timer that fired or was cleared.
ClearTimeout(t) == IF t = "armed" THEN "cleared" ELSE t

Listening == {f \in Flows : server[f] = "listening"}

\* What runAuthorizationFlow returns; every other result is an Error thrown.
ReturnValues == {"AlreadyStatic", "Authorization successful!"}

\* Mutant of RunAuthorizationFlow: no shortcut for static mode.
RunAuthorizationFlowNoStaticCheck(f) ==
  /\ flow[f].pc = "idle"
  /\ IF ~clientConfigured
     THEN /\ flow' = [flow EXCEPT ![f] = Done("NotConfigured")]
          /\ UNCHANGED <<promise, timer, server>>
     ELSE /\ flow' = [flow EXCEPT ![f] = [pc |-> "awaiting", state |-> generateState(f)]]
          /\ promise' = [promise EXCEPT ![f] = Pending]
          /\ timer' = [timer EXCEPT ![f] = "armed"]
          /\ server' = [server EXCEPT ![f] = "binding"]
  /\ UNCHANGED <<lateSettle, browser, host, response>>
  /\ UNCHANGED tokenVars

\* Mutant of RunAuthorizationFlow: only the client id is required.
RunAuthorizationFlowSecretOptional(f) ==
  /\ flow[f].pc = "idle"
  /\ IF usingStaticToken
     THEN /\ flow' = [flow EXCEPT ![f] = Done("AlreadyStatic")]
          /\ UNCHANGED <<promise, timer, server>>
     ELSE IF env.CLIENT_ID = ""
     THEN /\ flow' = [flow EXCEPT ![f] = Done("NotConfigured")]
          /\ UNCHANGED <<promise, timer, server>>
     ELSE /\ flow' = [flow EXCEPT ![f] = [pc |-> "awaiting", state |-> generateState(f)]]
          /\ promise' = [promise EXCEPT ![f] = Pending]
          /\ timer' = [timer EXCEPT ![f] = "armed"]
          /\ server' = [server EXCEPT ![f] = "binding"]
  /\ UNCHANGED <<lateSettle, browser, host, response>>
  /\ UNCHANGED tokenVars

\* runAuthorizationFlow up to its first await: the static and the
\* configuration shortcuts, generateState, and runCallbackServer's executor
\* (setTimeout, createServer, server.listen, server.on("error")).
RunAuthorizationFlow(f) ==
  /\ flow[f].pc = "idle"
  /\ IF usingStaticToken
     THEN /\ flow' = [flow EXCEPT ![f] = Done("AlreadyStatic")]
          /\ UNCHANGED <<promise, timer, server>>
     ELSE IF ~clientConfigured
     THEN /\ flow' = [flow EXCEPT ![f] = Done("NotConfigured")]
          /\ UNCHANGED <<promise, timer, server>>
     ELSE /\ flow' = [flow EXCEPT ![f] = [pc |-> "awaiting", state |-> generateState(f)]]
          /\ promise' = [promise EXCEPT ![f] = Pending]
          /\ timer' = [timer EXCEPT ![f] = "armed"]
          /\ server' = [server EXCEPT ![f] = "binding"]
  /\ UNCHANGED <<lateSettle, browser, host, response>>
  /\ UNCHANGED tokenVars

\* Mutant of ListenOk: the bind succeeds although the port is taken.
ListenOkShared(f) ==
  /\ server[f] = "binding"
  /\ server' = [server EXCEPT ![f] = "listening"]
  /\ \E openBrowser \in BOOLEAN : browser' = (browser \/ openBrowser)
  /\ UNCHANGED <<flow, promise, timer, lateSettle, host, response>>
  /\ UNCHANGED tokenVars

\* server.listen binds the port: the listening callback runs and, when
\* runAuthorizationFlow was called with openBrowser, launches the browser.
ListenOk(f) ==
  /\ server[f] = "binding"
  /\ Listening = {}
  /\ server' = [server EXCEPT ![f] = "listening"]
  /\ \E openBrowser \in BOOLEAN : browser' = (browser \/ openBrowser)
  /\ UNCHANGED <<flow, promise, timer, lateSettle, host, response>>
  /\ UNCHANGED tokenVars

\* server.on("error") handler: clearTimeout and reject; no server.close().
OnServerError(f) ==
  /\ timer' = [timer EXCEPT ![f] = ClearTimeout(timer[f])]
  /\ SettlePromise(f, Rejected("Failed to start callback server"))

\* server.listen fails to bind (the port is taken, in this process or by
\* another): the server emits "error" and never listens.
ListenError(f) ==
  /\ server[f] = "binding"
  /\ server' = [server EXCEPT ![f] = "failed"]
  /\ OnServerError(f)
  /\ UNCHANGED <<flow, browser, host, response>>
  /\ UNCHANGED tokenVars

\* A listening server emits "error" (a failed accept): it keeps listening.
AcceptError(f) ==
  /\ server[f] = "listening"
  /\ promise[f].status = "pending"
  /\ OnServerError(f)
  /\ UNCHANGED <<flow, server, browser, host, response>>
  /\ UNCHANGED tokenVars

\* Mutant of HandlerOutcome: a code takes precedence over an error.
HandlerOutcomeCodeFirst(req) ==
  IF GetOr(req.code, "") # ""
  THEN Resolved(req.code, GetOr(req.state, ""))
  ELSE IF GetOr(req.error, "") # ""
  THEN Rejected("OAuth2 error: " \o req.error \o " - "
                  \o GetOr(req.error_description, "Unknown error"))
  ELSE Rejected("Missing authorization code")

\* The settlement the request handler asks for, if any.
HandlerOutcome(req) ==
  IF GetOr(req.error, "") # ""
  THEN Rejected("OAuth2 error: " \o req.error \o " - "
                  \o GetOr(req.error_description, "Unknown error"))
  ELSE IF GetOr(req.code, "") = ""
  THEN Rejected("Missing authorization code")
  ELSE Resolved(req.code, GetOr(req.state, ""))

\* Mutant of ResponseStatus: a callback without a code is answered 200.
ResponseStatusMissingCodeOk(req) ==
  IF req.path # "/callback" THEN [status |-> 404, page |-> "Not found"]
  ELSE IF GetOr(req.error, "") # ""
  THEN [status |-> 200, page |-> "Authorization Failed"]
  ELSE [status |-> 200, page |-> "Authorization Successful!"]

\* What the request handler answers: the status of res.writeHead and the
\* heading of the page of res.end.  It depends on the request alone.
ResponseStatus(req) ==
  IF req.path # "/callback" THEN [status |-> 404, page |-> "Not found"]
  ELSE IF GetOr(req.error, "") # ""
  THEN [status |-> 200, page |-> "Authorization Failed"]
  ELSE IF GetOr(req.code, "") = ""
  THEN [status |-> 400, page |-> "Invalid Request"]
  ELSE [status |-> 200, page |-> "Authorization Successful!"]

\* Mutant of RequestHandler: every path is treated as the callback path.
RequestHandlerAnyPath(f, req) ==
  /\ server[f] \in {"listening", "closed"}
  /\ timer' = [timer EXCEPT ![f] = ClearTimeout(timer[f])]
  /\ server' = [server EXCEPT ![f] = Close(server[f])]
  /\ SettlePromise(f, HandlerOutcome(req))
  /\ UNCHANGED <<flow, browser, host>>
  /\ UNCHANGED tokenVars

\* The createServer request handler.  A request reaches it while the server
\* listens, and also after server.close(): close() stops accepting new
\* connections but a connection accepted earlier stays open (keep-alive)
\* and may still carry a request.
RequestHandler(f, req) ==
  /\ server[f] \in {"listening", "closed"}
  /\ IF req.path # "/callback"
     THEN UNCHANGED <<promise, timer, server, lateSettle>>
     ELSE /\ timer' = [timer EXCEPT ![f] = ClearTimeout(timer[f])]
          /\ server' = [server EXCEPT ![f] = Close(server[f])]
          /\ SettlePromise(f, HandlerOutcome(req))
  /\ UNCHANGED <<flow, browser, host>>
  /\ UNCHANGED tokenVars

\* A request of a client whose reply is not followed further.
Request(f, req) ==
  /\ RequestHandler(f, req)
  /\ UNCHANGED response

\* A request of the observed client: the reply travels back to it.
ObservedRequest(f, req) ==
  /\ response = NoResponse
  /\ RequestHandler(f, req)
  /\ response' = [flow |-> f, req |-> req, reply |-> ResponseStatus(req)]

\* The observed client reads the reply.
Receive ==
  /\ response # NoResponse
  /\ response' = NoResponse
  /\ UNCHANGED <<flow, promise, timer, server, lateSettle, browser, host>>
  /\ UNCHANGED tokenVars

\* A request whose target `new URL(req.url, base)` rejects (such as "//"):
\* the first statement of the request handler throws a TypeError.  Nothing
\* catches an exception thrown from a "request" listener and the program
\* installs no uncaughtException handler, so Node terminates the process.
MalformedRequest(f) ==
  /\ server[f] \in {"listening", "closed"}
  /\ host' = "crashed"
  /\ UNCHANGED <<flow, promise, timer, server, lateSettle, browser, response>>
  /\ UNCHANGED tokenVars

\* The setTimeout callback.  listen() settles long before AUTH_TIMEOUT_MS
\* elapses, so the timer does not fire while the server is still binding.
Timeout(f) ==
  /\ timer[f] = "armed"
  /\ server[f] # "binding"
  /\ timer' = [timer EXCEPT ![f] = "fired"]
  /\ server' = [server EXCEPT ![f] = Close(server[f])]
  /\ SettlePromise(f, Rejected("OAuth2 authorization timed out"))
  /\ UNCHANGED <<flow, browser, host, response>>
  /\ UNCHANGED tokenVars

\* Mutant of Resume: the received state is not compared with the nonce.
ResumeWithoutStateCheck(f) ==
  /\ flow[f].pc = "awaiting"
  /\ promise[f].status \in {"resolved", "rejected"}
  /\ IF promise[f].status = "rejected"
     THEN /\ flow' = [flow EXCEPT ![f] = Done(promise[f].error)]
          /\ UNCHANGED exchangePosts
     ELSE /\ flow' = [flow EXCEPT ![f] = [pc |-> "exchanging", code |-> promise[f].code]]
          /\ exchangePosts' = exchangePosts + 1
  /\ UNCHANGED <<promise, timer, server, lateSettle, browser, host, response>>
  /\ UNCHANGED <<env, usingStaticToken, token, tokenFile, now, calls, refreshPosts, issued>>

\* runAuthorizationFlow resumes after `await runCallbackServer(...)`: a
\* rejection propagates; a result is checked against the nonce and, when it
\* matches, exchangeCode sends its POST.
Resume(f) ==
  /\ flow[f].pc = "awaiting"
  /\ promise[f].status \in {"resolved", "rejected"}
  /\ IF promise[f].status = "rejected"
     THEN /\ flow' = [flow EXCEPT ![f] = Done(promise[f].error)]
          /\ UNCHANGED exchangePosts
     ELSE IF promise[f].receivedState # flow[f].state
     THEN /\ flow' = [flow EXCEPT ![f] = Done("OAuth2 state mismatch")]
          /\ UNCHANGED exchangePosts
     ELSE /\ flow' = [flow EXCEPT ![f] = [pc |-> "exchanging", code |-> promise[f].code]]
          /\ exchangePosts' = exchangePosts + 1
  /\ UNCHANGED <<promise, timer, server, lateSettle, browser, host, response>>
  /\ UNCHANGED <<env, usingStaticToken, token, tokenFile, now, calls, refreshPosts, issued>>

\* Mutant of ExchangeOk: the new record is saved but not installed.
ExchangeOkKeepsOldToken(f) ==
  /\ flow[f].pc = "exchanging"
  /\ \E ein \in ExpiresInValues, sc \in ScopeValues :
       /\ issued' = issued + 1
       /\ tokenFile' \in saveTokens(TokenFromResponse(ResponseData(issued + 1, ein, sc), now),
                                   tokenFile)
  /\ token' = token
  /\ flow' = [flow EXCEPT ![f] = Returned("Authorization successful!", "ok")]
  /\ UNCHANGED <<promise, timer, server, lateSettle, browser, host, response>>
  /\ UNCHANGED <<env, usingStaticToken, now, calls, refreshPosts, exchangePosts>>

\* The exchange POST is answered with a success status: exchangeCode
\* installs and saves the new record, and runAuthorizationFlow returns.
ExchangeOk(f) ==
  /\ flow[f].pc = "exchanging"
  /\ \E ein \in ExpiresInValues, sc \in ScopeValues :
       /\ issued' = issued + 1
       /\ token' = TokenFromResponse(ResponseData(issued + 1, ein, sc), now)
  /\ tokenFile' \in saveTokens(token', tokenFile)
  /\ flow' = [flow EXCEPT ![f] = Returned("Authorization successful!", "ok")]
  /\ UNCHANGED <<promise, timer, server, lateSettle, browser, host, response>>
  /\ UNCHANGED <<env, usingStaticToken, now, calls, refreshPosts, exchangePosts>>

\* Mutant of ExchangeFailed: the failure clears the tokens, as a failed
\* refresh does.
ExchangeFailedClearsTokens(f) ==
  /\ flow[f].pc = "exchanging"
  /\ \E s \in clearTokens(token, tokenFile) :
       /\ token' = s.token
       /\ tokenFile' = s.file
  /\ flow' = [flow EXCEPT ![f] = Returned("Token exchange failed", "error")]
  /\ UNCHANGED <<promise, timer, server, lateSettle, browser, host, response>>
  /\ UNCHANGED <<env, usingStaticToken, now, calls, refreshPosts, exchangePosts, issued>>

\* The exchange POST is answered with a non-success status: exchangeCode
\* throws before it touches the token.
ExchangeFailed(f) ==
  /\ flow[f].pc = "exchanging"
  /\ flow' = [flow EXCEPT ![f] = Returned("Token exchange failed", "error")]
  /\ UNCHANGED <<promise, timer, server, lateSettle, browser, host, response>>
  /\ UNCHANGED tokenVars

\* fetch rejects (no HTTP response).
ExchangeFetchError(f) ==
  /\ flow[f].pc = "exchanging"
  /\ flow' = [flow EXCEPT ![f] = Returned("FetchError", "none")]
  /\ UNCHANGED <<promise, timer, server, lateSettle, browser, host, response>>
  /\ UNCHANGED tokenVars

\* The process is killed (SIGKILL, power loss) while saveTokens runs after
\* a successful refresh.  writeFileSync opens TOKEN_FILE with O_TRUNC and
\* writes in place: a kill before the open leaves the file as it was, a kill
\* after the last write leaves the new text, a kill in between leaves the
\* file cut short.  These are the outcomes of saveTokens.
RefreshKilledInSave(c) ==
  /\ calls[c].pc = "refreshing"
  /\ \E ein \in ExpiresInValues, sc \in ScopeValues :
       /\ issued' = issued + 1
       /\ token' = TokenFromResponse(ResponseData(issued + 1, ein, sc), now)
  /\ tokenFile' \in saveTokens(token', tokenFile)
  /\ host' = "crashed"
  /\ UNCHANGED <<env, usingStaticToken, now, calls, refreshPosts, exchangePosts>>
  /\ UNCHANGED <<flow, promise, timer, server, lateSettle, browser, response>>

\* The same kill while saveTokens runs after a successful exchange.
ExchangeKilledInSave(f) ==
  /\ flow[f].pc = "exchanging"
  /\ \E ein \in ExpiresInValues, sc \in ScopeValues :
       /\ issued' = issued + 1
       /\ token' = TokenFromResponse(ResponseData(issued + 1, ein, sc), now)
  /\ tokenFile' \in saveTokens(token', tokenFile)
  /\ host' = "crashed"
  /\ UNCHANGED <<env, usingStaticToken, now, calls, refreshPosts, exchangePosts>>
  /\ UNCHANGED <<flow, promise, timer, server, lateSettle, browser, response>>

NextFlow ==
  \E f \in Flows :
    \/ RunAuthorizationFlow(f)
    \/ ListenOk(f)
    \/ ListenError(f)
    \/ AcceptError(f)
    \/ \E req \in Requests : Request(f, req)
    \/ Timeout(f)
    \/ Resume(f)
    \/ ExchangeOk(f)
    \/ ExchangeFailed(f)
    \/ ExchangeFetchError(f)

Next ==
  /\ host = "running"
  /\ \/ NextToken
     \/ NextFlow
     \/ \E f \in Flows : MalformedRequest(f) \/ ExchangeKilledInSave(f)
     \/ \E c \in Callers : RefreshKilledInSave(c)

Spec == Init /\ [][Next]_vars

\* The authorization flow alone, in OAuth mode with client credentials.
InitFlow ==
  /\ \E f \in FlowInitialFiles :
       Constructor([STATIC_ACCESS_TOKEN |-> "", CLIENT_ID |-> "id", CLIENT_SECRET |-> "secret"], f)
  /\ InitRest

SpecFlow == InitFlow /\ [][NextFlow]_vars

\* The authorization flow under the scheduling of Node's event loop: an
\* armed timer's callback runs once the delay has passed (setTimeout), and
\* the continuation of `await runCallbackServer(...)` runs once the promise
\* has settled.  Nothing obliges a client to send a request, the network to
\* fail, or the token endpoint to answer.
SpecListener ==
  /\ InitFlow
  /\ [][NextFlow]_vars
  /\ \A f \in Flows : WF_vars(Timeout(f)) /\ WF_vars(Resume(f))

\* The authorization flow with a client whose replies are followed.
NextCallback ==
  \/ \E f \in Flows :
       /\ f = 1
       /\ \/ RunAuthorizationFlow(f)
          \/ ListenOk(f)
          \/ ListenError(f)
          \/ AcceptError(f)
          \/ \E req \in Requests : Request(f, req)
          \/ \E req \in Requests \cup EmptyValueRequests : ObservedRequest(f, req)
          \/ Timeout(f)
          \/ Resume(f)
          \/ ExchangeOk(f)
          \/ ExchangeFailed(f)
          \/ ExchangeFetchError(f)
  \/ Receive

SpecCallback == InitFlow /\ [][NextCallback]_vars

\* The token manager without the authorization flow (the client
\* credentials are read by the flow only).
InitToken ==
  /\ \E e \in {x \in Environments : x.CLIENT_ID # "" /\ x.CLIENT_SECRET # ""},
        f \in InitialFiles :
       Constructor(e, f)
  /\ InitRest

SpecToken == InitToken /\ [][NextToken]_vars

\* JSON text of an object with three of the five members: the file is not
\* written by this program alone (an editor, another tool, another version).
PartialJSON ==
  << <<"access_token", "at0">>, <<"refresh_token", "rt0">>, <<"expires_at", 90>> >>

\* JSON text of a record with all five members and an empty refresh_token.
NoRefreshJSON == JSONStringify(TokenData("at0", "", 90, "Bearer", "user:read"))

\* The token manager started over any token file, well-formed or not.
InitLoad ==
  /\ \E e \in {x \in Environments : x.CLIENT_ID # "" /\ x.CLIENT_SECRET # ""},
        f \in InitialFiles \cup {FileOf(PartialJSON), FileOf(NoRefreshJSON)} :
       Constructor(e, f)
  /\ InitRest

SpecLoad == InitLoad /\ [][NextToken]_vars

\* Static mode: every operation the token manager offers there.
InitStatic ==
  /\ \E e \in {x \in Environments : x.STATIC_ACCESS_TOKEN # ""}, f \in InitialFiles :
       Constructor(e, f)
  /\ InitRest

NextStatic ==
  \/ Tick
  \/ ClearTokens
  \/ \E c \in Callers : GetAccessToken(c) \/ Return(c)
  \/ \E f \in Flows : RunAuthorizationFlow(f)

SpecStatic == InitStatic /\ [][NextStatic]_vars

\* ------------------------------------------------------------ public tools
\* A tool call waiting for the API's answer, and a finished one.
Fetching(tool) == [pc |-> "fetching", tool |-> tool]
ToolResult(tool, r, h) == [pc |-> "done", tool |-> tool, result |-> r, http |-> h]

\* apiGet up to its first await on I/O.  With authenticated it awaits
\* getAuthHeaders, that is getAccessToken; without, getPublicHeaders builds
\* the headers and the fetch is sent at once.
apiGet(c, tool, authenticated) ==
  IF authenticated
  THEN GetAccessToken(c)
  ELSE /\ calls[c].pc = "idle"
       /\ calls' = [calls EXCEPT ![c] = Fetching(tool)]
       /\ UNCHANGED <<env, usingStaticToken, token, tokenFile, now, refreshPosts,
                      exchangePosts, issued>>
       /\ UNCHANGED flowVars

\* Mutant of handleGetChallenges: the request is sent authenticated.
handleGetChallengesAuthenticated(c) == apiGet(c, "challenges", TRUE)

handleGetChallenges(c) == apiGet(c, "challenges", FALSE)

handleGetEvents(c) == apiGet(c, "events", FALSE)

\* The API answers the fetch of apiGet: a success status returns the data, a
\* non-success status throws through handleApiError, a rejected fetch throws.
ApiAnswer(c) ==
  /\ calls[c].pc = "fetching"
  /\ \/ calls' = [calls EXCEPT ![c] = ToolResult(calls[c].tool, "data", "ok")]
     \/ calls' = [calls EXCEPT ![c] = ToolResult(calls[c].tool, "ApiError", "error")]
     \/ calls' = [calls EXCEPT ![c] = ToolResult(calls[c].tool, "FetchError", "none")]
  /\ UNCHANGED <<env, usingStaticToken, token, tokenFile, now, refreshPosts,
                 exchangePosts, issued>>
  /\ UNCHANGED flowVars

\* The challenge and event tools, with the clock and logout.
NextApi ==
  \/ Tick
  \/ ClearTokens
  \/ \E c \in Callers :
       \/ handleGetChallenges(c)
       \/ handleGetEvents(c)
       \/ ApiAnswer(c)
       \/ Return(c)

SpecApi == InitToken /\ [][NextApi]_vars

\* ------------------------------------------------------ the workout summary
\* The loop of handleWorkoutSummary gives up after this many pages.
PageLimit == 20

\* data.meta?.pagination of a response: absent, or a record whose
\* total_pages is a number, or a record without a numeric total_pages.
NoPagination == [has |-> FALSE]
Pagination(tp) == [has |-> TRUE, total_pages |-> tp]
PaginationNoTotal == [has |-> TRUE]
TotalPagesValues == {-1, 0, 1, 2, 19, 20, 21, 1000}
MetaValues ==
  {NoPagination, PaginationNoTotal} \cup {Pagination(tp) : tp \in TotalPagesValues}

\* page >= meta.total_pages; a comparison with undefined is false.
ReachedTotal(p, m) == "total_pages" \in DOMAIN m /\ p >= m.total_pages

\* The summary tool waiting for page p (m is the metadata of the page
\* before it), and the tool finished after n requests.
Paging(p, m) == [pc |-> "paging", tool |-> "summary", page |-> p, meta |-> m]
SummaryDone(r, h, n, m) ==
  [pc |-> "done", tool |-> "summary", result |-> r, http |-> h,
   requested |-> n, meta |-> m]

\* getAccessToken answers apiGet without an await on I/O: no token is
\* held, the token is static, or the token is not about to expire.
AccessTokenAtOnce ==
  token = NULL \/ usingStaticToken \/ ~isExpired(DefaultBufferMs)

\* apiGet for page p, up to its fetch: getAuthHeaders throws when no token
\* is held, otherwise the request is sent.
apiGetPage(p, m) ==
  IF token = NULL
  THEN SummaryDone("NotAuthenticated", "none", p - 1, m)
  ELSE Paging(p, m)

\* Mutant of AfterPage: the loop has no safety limit.
AfterPageNoLimit(p, m) ==
  IF ~m.has \/ ReachedTotal(p, m)
  THEN SummaryDone("data", "ok", p, m)
  ELSE apiGetPage(p + 1, m)

\* The rest of one loop iteration, after page p arrived with metadata m:
\* break without metadata or on the last page, page++, break above the
\* limit, otherwise the next apiGet.
AfterPage(p, m) ==
  IF ~m.has \/ ReachedTotal(p, m)
  THEN SummaryDone("data", "ok", p, m)
  ELSE IF p + 1 > PageLimit
  THEN SummaryDone("data", "ok", p, m)
  ELSE apiGetPage(p + 1, m)

\* handleWorkoutSummary up to its first await on I/O: page = 1, apiGet.
handleWorkoutSummary(c) ==
  /\ calls[c].pc = "idle"
  /\ AccessTokenAtOnce
  /\ calls' = [calls EXCEPT ![c] = apiGetPage(1, NoPagination)]
  /\ UNCHANGED <<env, usingStaticToken, token, tokenFile, now, refreshPosts,
                 exchangePosts, issued>>
  /\ UNCHANGED flowVars

\* The API answers the request for one page: a non-success status and a
\* rejected fetch throw out of the loop, a page of results runs the rest
\* of the iteration.
PageAnswer(c) ==
  /\ calls[c].pc = "paging"
  /\ AccessTokenAtOnce
  /\ \/ calls' = [calls EXCEPT ![c] =
                    SummaryDone("ApiError", "error", calls[c].page, calls[c].meta)]
     \/ calls' = [calls EXCEPT ![c] =
                    SummaryDone("FetchError", "none", calls[c].page, calls[c].meta)]
     \/ \E m \in MetaValues :
          calls' = [calls EXCEPT ![c] = AfterPage(calls[c].page, m)]
  /\ UNCHANGED <<env, usingStaticToken, token, tokenFile, now, refreshPosts,
                 exchangePosts, issued>>
  /\ UNCHANGED flowVars

\* The summary tool of a server that runs with a static token, called by
\* one client, with the clock and logout.
NextSummary ==
  \/ Tick
  \/ ClearTokens
  \/ \E c \in Callers :
       c = 1 /\ (handleWorkoutSummary(c) \/ PageAnswer(c) \/ Return(c))

\* Every request that was sent is answered or fails: fetch settles.
SpecSummary ==
  InitStatic /\ [][NextSummary]_vars /\ \A c \in Callers : WF_vars(PageAnswer(c))

\* --------------------------------------------------------------- the queries
\* What handleAuthStatus reports, from the queries alone.
AuthStatus ==
  IF isUsingStaticToken THEN "Static Token"
  ELSE IF ~clientConfigured THEN "Not configured"
  ELSE IF hasValidToken
  THEN IF getTokenInfo # NULL /\ isExpired(DefaultBufferMs)
       THEN "Connected: Expired"
       ELSE "Connected: Valid"
  ELSE "Not connected"

\* handleAuthStatus: synchronous; it calls the queries and returns text.
handleAuthStatus(c) ==
  /\ calls[c].pc = "idle"
  /\ calls' = [calls EXCEPT ![c] = ToolResult("status", AuthStatus, "none")]
  /\ UNCHANGED <<env, usingStaticToken, token, tokenFile, now, refreshPosts,
                 exchangePosts, issued>>
  /\ UNCHANGED flowVars

\* The token manager with the status tool, called by one client.
NextQuery ==
  \/ NextToken
  \/ \E c \in Callers : c = 1 /\ handleAuthStatus(c)

SpecQuery == InitToken /\ [][NextQuery]_vars

\* The whole credential lifecycle of one process, in either mode and with
\* or without client credentials: the clock, logout, one tool call at a
\* time asking for the access token, and one authorization flow.
InitLifecycle ==
  /\ \E e \in Environments, f \in FlowInitialFiles \cup {FileOf(Truncated), Unreadable} :
       Constructor(e, f)
  /\ InitRest

NextLifecycle ==
  \/ Tick
  \/ ClearTokens
  \/ \E c \in Callers :
       /\ c = 1
       /\ \/ GetAccessToken(c)
          \/ RefreshOk(c)
          \/ RefreshFailed(c)
          \/ RefreshFetchError(c)
          \/ Return(c)
  \/ \E f \in Flows :
       /\ f = 1
       /\ \/ RunAuthorizationFlow(f)
          \/ ListenOk(f)
          \/ ListenError(f)
          \/ AcceptError(f)
          \/ \E req \in Requests : Request(f, req)
          \/ Timeout(f)
          \/ Resume(f)
          \/ ExchangeOk(f)
          \/ ExchangeFailed(f)
          \/ ExchangeFetchError(f)

SpecLifecycle == InitLifecycle /\ [][NextLifecycle]_vars

\* The same process with the events that end it: a request the callback
\* server cannot parse, a kill while the token file is written.  A process
\* that has terminated takes no further step.
NextHost ==
  /\ host = "running"
  /\ \/ NextLifecycle
     \/ \E f \in Flows : f = 1 /\ (MalformedRequest(f) \/ ExchangeKilledInSave(f))
     \/ \E c \in Callers : c = 1 /\ RefreshKilledInSave(c)

SpecHost == InitLifecycle /\ [][NextHost]_vars

\* ================================================================== claims

Refreshing == {c \in Callers : calls[c].pc = "refreshing"}

\* C1: single-flight refresh: however many getAccessToken() calls overlap
\* while the held token is expired, at most one refresh POST is in flight;
\* the other callers wait for it instead of sending their own.
C1_SingleFlightRefresh == Cardinality(Refreshing) <= 1

Settled == {"resolved", "rejected"}

\* C2: the promise of one runCallbackServer invocation is settled exactly
\* once: after the first terminal event has settled it, no later callback
\* request, timer expiry or error event changes the settled result.
C2_SettledExactlyOnce ==
  [][\A f \in Flows :
       promise[f].status \in Settled => promise'[f] = promise[f]]_vars

\* C2 witness: the timer of the only flow fired first, and a later terminal
\* event called resolve or reject on the promise it had settled.
C2_Witness ==
  \E f \in Flows :
    /\ lateSettle
    /\ timer[f] = "fired"
    /\ promise[f] = Rejected("OAuth2 authorization timed out")
    /\ \A g \in Flows \ {f} : flow[g].pc = "idle"

\* C3: when the state received on the callback differs from the nonce the
\* same invocation generated, runAuthorizationFlow fails with the state
\* mismatch error, sends no exchange POST and leaves token and file alone.
C3_StateMismatchAborts ==
  [][\A f \in Flows :
       ( /\ flow[f].pc = "awaiting"
         /\ promise[f].status = "resolved"
         /\ promise[f].receivedState # generateState(f)
         /\ flow'[f] # flow[f] )
       => /\ flow'[f] = Done("OAuth2 state mismatch")
          /\ exchangePosts' = exchangePosts
          /\ token' = token
          /\ tokenFile' = tokenFile]_vars

C3_Witness ==
  \E f \in Flows :
    /\ flow[f] = Done("OAuth2 state mismatch")
    /\ promise[f].status = "resolved"
    /\ promise[f].receivedState \in {"", "forged"} \cup {generateState(g) : g \in Flows \ {f}}
    /\ exchangePosts = 0

\* C4: on every exit path of runAuthorizationFlow that started a listener,
\* the callback server is closed by the time the flow returns or throws.
C4_ListenerClosedOnExit ==
  \A f \in Flows : flow[f].pc = "done" => server[f] # "listening"

C6_StaticTokenUnconditional ==
  usingStaticToken =>
    /\ \A c \in Callers :
         calls[c].pc = "done" => calls[c].result = env.STATIC_ACCESS_TOKEN
    /\ refreshPosts = 0
    /\ exchangePosts = 0

\* A getAccessToken() call whose refresh request has just been answered.
RefreshAnswered(c, h) ==
  /\ calls[c].pc = "refreshing"
  /\ calls'[c].pc = "done"
  /\ calls'[c].http = h

\* C7 as stated: a non-success answer to the refresh request leaves the
\* token absent and the token file deleted, getAccessToken() fails with the
\* refresh-failed error, and hasValidToken() is then false.
C7_FailClosedRefresh ==
  [][\A c \in Callers :
       RefreshAnswered(c, "error")
       => /\ token' = NULL
          /\ tokenFile' = NoFile
          /\ calls'[c].result = "RefreshFailed"
          /\ ~hasValidToken']_vars

\* C7 amended: as C7, but the token file is deleted only if unlinkSync
\* succeeds; when it throws, the error is swallowed and the file stays as it
\* was.
C7_FailClosedRefreshAmended ==
  [][\A c \in Callers :
       RefreshAnswered(c, "error")
       => /\ token' = NULL
          /\ tokenFile' \in {NoFile, tokenFile}
          /\ calls'[c].result = "RefreshFailed"
          /\ ~hasValidToken']_vars

C7_Witness ==
  \E c \in Callers :
    /\ calls[c] = Returned("RefreshFailed", "error")
    /\ token = NULL
    /\ tokenFile = NoFile
    /\ refreshPosts = 1

\* The record a success answer must install: the token the endpoint mints
\* next, expiring expires_in after the current clock value.
InstalledFromAnswer ==
  /\ token' # NULL
  /\ token'.access_token = "at" \o ToString(issued + 1)
  /\ token'.refresh_token = "rt" \o ToString(issued + 1)
  /\ token'.expires_at - now \in ExpiresInValues

\* C8 as stated: a success answer to the refresh request makes
\* getAccessToken() return the new access_token, replaces the held record by
\* the new one with expires_at = now + expires_in, and the token file then
\* contains that same record.
C8_RefreshInstallsAndPersists ==
  [][\A c \in Callers :
       RefreshAnswered(c, "ok")
       => /\ InstalledFromAnswer
          /\ calls'[c].result = token'.access_token
          /\ tokenFile'.exists
          /\ IsJSON(tokenFile'.text)
          /\ JSONParse(tokenFile'.text) = token']_vars

\* C8 amended: as C8, but the token file contains the new record only if
\* writeFileSync succeeds; when it throws, the error is swallowed and the
\* file is left as it was or cut short.
C8_RefreshInstallsAmended ==
  [][\A c \in Callers :
       RefreshAnswered(c, "ok")
       => /\ InstalledFromAnswer
          /\ calls'[c].result = token'.access_token
          /\ \/ /\ tokenFile'.exists
                /\ IsJSON(tokenFile'.text)
                /\ JSONParse(tokenFile'.text) = token'
             \/ tokenFile' = tokenFile
             \/ tokenFile' = FileOf(Truncated)]_vars

C8_Witness ==
  \E c \in Callers :
    /\ calls[c].pc = "done"
    /\ calls[c].http = "ok"
    /\ now > 0
    /\ token # NULL
    /\ calls[c].result = token.access_token
    /\ token.expires_at = now + 90
    /\ tokenFile = FileOf(JSONStringify(token))

\* C9: in OAuth mode with a token held, getAccessToken() sends a refresh
\* request exactly when now >= expires_at - 60 s; otherwise it returns the
\* held access_token, sends nothing and leaves token and file unchanged.
C9_RefreshIffWithinBuffer ==
  [][\A c \in Callers :
       ( /\ calls[c].pc = "idle"
         /\ calls'[c].pc # "idle"
         /\ ~usingStaticToken
         /\ token # NULL )
       => IF now >= token.expires_at - 60
          THEN /\ refreshPosts' = refreshPosts + 1
               /\ calls'[c].pc = "refreshing"
          ELSE /\ refreshPosts' = refreshPosts
               /\ calls'[c] = Returned(token.access_token, "none")
               /\ token' = token
               /\ tokenFile' = tokenFile]_vars

\* C9 witness: one call returned the held token without a request, and a
\* call made at the boundary now = expires_at - 60 s is refreshing.
C9_Witness ==
  \E c \in Callers, d \in Callers :
    /\ ~usingStaticToken
    /\ token # NULL
    /\ calls[c] = Returned(token.access_token, "none")
    /\ calls[d].pc = "refreshing"
    /\ now = token.expires_at - 60
    /\ refreshPosts = 1

\* C10: isExpired(buffer) is false when expires_at > now + buffer and true
\* when expires_at <= now + buffer; with no token held it is true.
C10_IsExpiredBoundary ==
  \A b \in BufferValues :
    IF token = NULL
    THEN isExpired(b)
    ELSE /\ token.expires_at > now + b => ~isExpired(b)
         /\ token.expires_at <= now + b => isExpired(b)

\* C10 witness: a token installed by a refresh sits exactly on a boundary.
C10_Witness ==
  /\ token # NULL
  /\ issued > 0
  /\ \E b \in BufferValues : token.expires_at = now + b
  /\ \E b \in BufferValues : token.expires_at > now + b

\* C11: getAccessToken() called in OAuth mode while no token is held fails
\* with the not-authenticated error, sends no request to the token endpoint
\* and changes nothing: token, token file, mode and counters stay as they are.
C11_NotAuthenticatedNoEffect ==
  [][\A c \in Callers :
       ( /\ calls[c].pc = "idle"
         /\ calls'[c].pc # "idle"
         /\ ~usingStaticToken
         /\ token = NULL )
       => /\ calls'[c] = Returned("NotAuthenticated", "none")
          /\ refreshPosts' = refreshPosts
          /\ exchangePosts' = exchangePosts
          /\ UNCHANGED <<env, usingStaticToken, token, tokenFile, now, issued>>
          /\ UNCHANGED flowVars]_vars

\* C11 witness: a call made with no token held (the token file was cut
\* short) has thrown not-authenticated, and no request was ever sent.
C11_Witness ==
  \E c \in Callers :
    /\ ~usingStaticToken
    /\ token = NULL
    /\ tokenFile = FileOf(Truncated)
    /\ calls[c] = Returned("NotAuthenticated", "none")
    /\ refreshPosts = 0

\* C12 as stated: clearTokens() is idempotent: after one call the token is
\* absent and the token file does not exist, and a second call leaves that
\* state as it is.
C12_ClearTokensIdempotent ==
  \A s \in clearTokens(token, tokenFile) :
    /\ s.token = NULL
    /\ s.file = NoFile
    /\ clearTokens(s.token, s.file) = {s}

\* C12 amended: after one call the token is absent, and the token file does
\* not exist if unlinkSync succeeded; when it throws, the error is swallowed
\* and the file is left as it was.  Once the file is gone a further call
\* leaves the state as it is.
C12_ClearTokensIdempotentAmended ==
  \A s \in clearTokens(token, tokenFile) :
    /\ s.token = NULL
    /\ s.file \in {NoFile, tokenFile}
    /\ s.file = NoFile => clearTokens(s.token, s.file) = {s}

\* C12 witness: a call had returned the token loaded from the file, no
\* refresh was ever sent, and now token and file are both gone: clearTokens
\* has removed them.
C12_Witness ==
  \E c \in Callers :
    /\ ~usingStaticToken
    /\ calls[c] = Returned("at0", "none")
    /\ refreshPosts = 0
    /\ token = NULL
    /\ tokenFile = NoFile

\* C13: the mode is fixed at construction: isUsingStaticToken() is true in
\* every reachable state exactly when a static access token was configured,
\* whether or not client id and secret are configured too; no authorization
\* flow, refresh or clearTokens changes it.
C13_ModeFixedAtConstruction ==
  isUsingStaticToken <=> (env.STATIC_ACCESS_TOKEN # "")

\* C13 witness: static token and client credentials both configured; a flow
\* has run, clearTokens has wiped the token, a call has failed, and the mode
\* is still static.
C13_Witness ==
  \E f \in Flows, c \in Callers :
    /\ isUsingStaticToken
    /\ clientConfigured
    /\ flow[f].pc = "done"
    /\ token = NULL
    /\ calls[c] = Returned("NotAuthenticated", "none")

\* C14: runAuthorizationFlow() in static mode returns success at once and
\* does nothing else: no nonce, no promise, timer or listener, no browser,
\* no request to the token endpoint, token and token file unchanged.
C14_StaticFlowIsNoOp ==
  [][\A f \in Flows :
       ( /\ usingStaticToken
         /\ flow[f].pc = "idle"
         /\ flow'[f] # flow[f] )
       => /\ flow'[f] = Done("AlreadyStatic")
          /\ flow'[f].result \in ReturnValues
          /\ UNCHANGED <<promise, timer, server, browser, lateSettle>>
          /\ UNCHANGED <<refreshPosts, exchangePosts, issued>>
          /\ UNCHANGED <<token, tokenFile, usingStaticToken>>]_vars

\* C14 witness: static mode with client credentials configured and a token
\* file on disk; the flow has returned, and the static token, the file, the
\* listener and the browser are as they were at construction.
C14_Witness ==
  \E f \in Flows :
    /\ usingStaticToken
    /\ clientConfigured
    /\ flow[f] = Done("AlreadyStatic")
    /\ token = StaticToken(env.STATIC_ACCESS_TOKEN, 0)
    /\ tokenFile.exists
    /\ server[f] = "none"
    /\ timer[f] = "none"
    /\ ~browser
    /\ exchangePosts = 0

\* C15: runAuthorizationFlow() in OAuth mode with the client id or the
\* client secret missing fails at once with the configuration error: no
\* promise, timer or listener, no browser, no request to the token endpoint,
\* token and token file unchanged.
C15_MissingClientFailsAtOnce ==
  [][\A f \in Flows :
       ( /\ ~usingStaticToken
         /\ env.CLIENT_ID = "" \/ env.CLIENT_SECRET = ""
         /\ flow[f].pc = "idle"
         /\ flow'[f] # flow[f] )
       => /\ flow'[f] = Done("NotConfigured")
          /\ flow'[f].result \notin ReturnValues
          /\ UNCHANGED <<promise, timer, server, browser, lateSettle>>
          /\ UNCHANGED <<refreshPosts, exchangePosts, issued>>
          /\ UNCHANGED <<token, tokenFile, usingStaticToken>>]_vars

\* C15 witness: only the client secret is missing; the flow has failed with
\* the configuration error and the token loaded from the file is still held.
C15_Witness ==
  \E f \in Flows :
    /\ ~usingStaticToken
    /\ env.CLIENT_ID # ""
    /\ env.CLIENT_SECRET = ""
    /\ flow[f] = Done("NotConfigured")
    /\ token # NULL
    /\ token.access_token = "at0"
    /\ server[f] = "none"
    /\ timer[f] = "none"
    /\ exchangePosts = 0

\* C16: no failure of the credential subsystem terminates the host process:
\* whatever goes wrong while tokens are obtained, refreshed or cleared, or
\* while the callback server waits, the process keeps running and serves the
\* next tool call.
C16_HostKeepsServing == host = "running"

\* A runAuthorizationFlow() whose exchange request has just been answered.
ExchangeAnswered(f, h) ==
  /\ flow[f].pc = "exchanging"
  /\ flow'[f].pc = "done"
  /\ flow'[f].http = h

\* C17 as stated: when the exchange of a code received with the matching
\* state is answered with success, runAuthorizationFlow returns success, the
\* held record is the one built from the answer with expires_at = now +
\* expires_in, the token file contains that same record, and hasValidToken()
\* is true.
C17_ExchangeInstallsAndPersists ==
  [][\A f \in Flows :
       ExchangeAnswered(f, "ok")
       => /\ flow'[f].result = "Authorization successful!"
          /\ flow'[f].result \in ReturnValues
          /\ InstalledFromAnswer
          /\ hasValidToken'
          /\ tokenFile'.exists
          /\ tokenFile' # Unreadable
          /\ IsJSON(tokenFile'.text)
          /\ JSONParse(tokenFile'.text) = token']_vars

\* C17 amended: as C17, but the token file contains the new record only if
\* writeFileSync succeeds; when it throws, the error is swallowed and the
\* file is left as it was or cut short.
C17_ExchangeInstallsAmended ==
  [][\A f \in Flows :
       ExchangeAnswered(f, "ok")
       => /\ flow'[f].result = "Authorization successful!"
          /\ flow'[f].result \in ReturnValues
          /\ InstalledFromAnswer
          /\ hasValidToken'
          /\ \/ /\ tokenFile'.exists
                /\ tokenFile' # Unreadable
                /\ IsJSON(tokenFile'.text)
                /\ JSONParse(tokenFile'.text) = token'
             \/ tokenFile' = tokenFile
             \/ tokenFile' = FileOf(Truncated)]_vars

\* C17 witness: the code came with the flow's own nonce, the clock has
\* advanced, no refresh was ever sent, and the flow has returned success with
\* the exchanged record held and on disk.
C17_Witness ==
  \E f \in Flows :
    /\ flow[f] = Returned("Authorization successful!", "ok")
    /\ promise[f].status = "resolved"
    /\ promise[f].receivedState = generateState(f)
    /\ refreshPosts = 0
    /\ now > 0
    /\ hasValidToken
    /\ token.access_token = "at1"
    /\ token.expires_at = now + 90
    /\ tokenFile = FileOf(JSONStringify(token))

\* A step of the authorization flow f: one that changes its progress, its
\* promise, its timer or its server.
FlowStep(f) ==
  \/ flow'[f] # flow[f]
  \/ promise'[f] # promise[f]
  \/ timer'[f] # timer[f]
  \/ server'[f] # server[f]

\* C18: when the exchange is answered with a non-success status,
\* runAuthorizationFlow fails with the exchange-failed error and token and
\* token file stay as they are; no step of a flow other than a successful
\* exchange touches them, so a failed flow leaves both as it found them.
C18_ExchangeFailureKeepsToken ==
  [][\A f \in Flows :
       /\ ExchangeAnswered(f, "error")
          => /\ flow'[f].result = "Token exchange failed"
             /\ flow'[f].result \notin ReturnValues
             /\ token' = token
             /\ tokenFile' = tokenFile
       /\ (FlowStep(f) /\ ~ExchangeAnswered(f, "ok"))
          => /\ token' = token
             /\ tokenFile' = tokenFile]_vars

\* C18 witness: the flow has failed at the exchange, and the token loaded
\* from the file at construction is still held and still on disk.
C18_Witness ==
  \E f \in Flows :
    /\ flow[f] = Returned("Token exchange failed", "error")
    /\ exchangePosts = 1
    /\ refreshPosts = 0
    /\ token # NULL
    /\ token.access_token = "at0"
    /\ tokenFile = FileOf(JSONStringify(token))

Fields == {"access_token", "refresh_token", "expires_at", "token_type", "scope"}

\* Records l and t have all five fields and agree on each.
SameRecord(l, t) ==
  \A k \in Fields : k \in DOMAIN l /\ k \in DOMAIN t /\ l[k] = t[k]

\* C19 as stated: store/load round trip: saving the held record with
\* saveTokens and loading the token file with loadTokens, as the next process
\* start does, yields a record equal to the saved one in all five fields.
C19_StoreLoadRoundTrip ==
  token # NULL =>
    \A f \in saveTokens(token, tokenFile) : SameRecord(loadTokens(f, NULL), token)

\* C19 amended: the round trip holds when writeFileSync succeeds; when it
\* throws, the error is swallowed and the file is left as it was or cut
\* short, and the next load yields whatever that file holds.
C19_StoreLoadRoundTripAmended ==
  token # NULL =>
    /\ \A f \in saveTokens(token, tokenFile) :
         \/ f = FileOf(JSONStringify(token)) /\ SameRecord(loadTokens(f, NULL), token)
         \/ f = tokenFile
         \/ f = FileOf(Truncated)
    /\ \E f \in saveTokens(token, tokenFile) :
         f = FileOf(JSONStringify(token)) /\ SameRecord(loadTokens(f, NULL), token)

\* C19 witness: a record built from a token response (its scope defaulted
\* to the empty string) has been saved, and loading the file returns it.
C19_Witness ==
  /\ ~usingStaticToken
  /\ issued > 0
  /\ token # NULL
  /\ token.scope = ""
  /\ now > 0
  /\ tokenFile = FileOf(JSONStringify(token))
  /\ SameRecord(loadTokens(tokenFile, NULL), token)

\* The token files construction cannot load: missing, cut short, unreadable.
BadFiles == {NoFile, FileOf(Truncated), Unreadable}

\* C20: in OAuth mode a token file that is missing, unreadable or
\* unparsable counts as absent: until a token is issued the manager holds
\* none, hasValidToken() is false and getAccessToken() fails with the
\* not-authenticated error; and a write failure in saveTokens is swallowed:
\* the refresh or exchange that saved still returns its success.
C20_PersistenceErrorsSwallowed ==
  [][/\ ( /\ ~usingStaticToken
           /\ issued = 0
           /\ tokenFile \in BadFiles )
        => /\ loadTokens(tokenFile, NULL) = NULL
           /\ token = NULL
           /\ ~hasValidToken
           /\ \A c \in Callers :
                (calls[c].pc = "idle" /\ calls'[c].pc # "idle")
                => calls'[c] = Returned("NotAuthenticated", "none")
     /\ \A c \in Callers :
          (RefreshAnswered(c, "ok") /\ tokenFile' # FileOf(JSONStringify(token')))
          => /\ token' # NULL
             /\ calls'[c].result = token'.access_token
     /\ \A f \in Flows :
          (ExchangeAnswered(f, "ok") /\ tokenFile' # FileOf(JSONStringify(token')))
          => /\ token' # NULL
             /\ flow'[f].result \in ReturnValues]_vars

\* C20 witness: the file was unreadable at construction and a call failed
\* with not-authenticated; then a flow exchanged a code, the write of the
\* new record failed, and the flow still returned success.
C20_Witness ==
  \E c \in Callers, f \in Flows :
    /\ ~usingStaticToken
    /\ calls[c] = Returned("NotAuthenticated", "none")
    /\ flow[f] = Returned("Authorization successful!", "ok")
    /\ token # NULL
    /\ tokenFile = Unreadable

\* C21: crash safety of save: when the process dies at any point during
\* saveTokens, the token file is afterwards either what it was before or the
\* complete new record; a file cut short is never left behind.
C21_SaveIsCrashSafe ==
  [][(host = "running" /\ host' = "crashed")
     => \/ tokenFile' = tokenFile
        \/ /\ token' # NULL
           /\ tokenFile' = FileOf(JSONStringify(token'))]_vars

\* C22: in static mode the token never counts as expired: isExpired() with
\* the default buffer is false in every reachable state, after any sequence
\* of operations.
C22_StaticNeverExpired == usingStaticToken => ~isExpired(DefaultBufferMs)

\* C23: the challenge and event tools need no authentication: whatever the
\* token state, their calls never ask the token manager for a token, never
\* send a refresh, never change token or token file, and return the data
\* whenever the API answers with success.
C23_PublicToolsNeedNoToken ==
  [][\A c \in Callers :
       calls'[c] # calls[c]
       => /\ token' = token
          /\ tokenFile' = tokenFile
          /\ refreshPosts' = refreshPosts
          /\ calls'[c].pc # "refreshing"
          /\ calls'[c].pc = "done"
             => /\ calls'[c].result \notin {"NotAuthenticated", "RefreshFailed"}
                /\ calls'[c].http = "ok" => calls'[c].result = "data"]_vars

\* C23 witness: OAuth mode, no token held; a challenges call and an events
\* call have both returned data, and no refresh was sent.
C23_Witness ==
  \E c \in Callers, d \in Callers :
    /\ ~usingStaticToken
    /\ token = NULL
    /\ calls[c] = ToolResult("challenges", "data", "ok")
    /\ calls[d] = ToolResult("events", "data", "ok")
    /\ refreshPosts = 0

\* A step in which the observed client's request is handled.
Answered == response = NoResponse /\ response' # NoResponse

\* A parameter is present with a value.
Has(x) == x # "null" /\ x # ""

ProviderError(req) ==
  "OAuth2 error: " \o req.error \o " - "
    \o (IF Has(req.error_description) THEN req.error_description ELSE "Unknown error")

\* A flow that resumes on a rejected listener fails with the listener's
\* error and sends no code exchange.
RejectionFailsFlow ==
  \A f \in Flows :
    (flow[f].pc = "awaiting" /\ promise[f].status = "rejected" /\ flow'[f] # flow[f])
    => /\ flow'[f] = Done(promise[f].error)
       /\ exchangePosts' = exchangePosts

\* C25: every /callback request whose query contains an error parameter,
\* with or without a code, is answered 200 with the failure page and
\* settles the listener as the provider error carrying error and
\* error_description; the server is closed (the port released), and the flow
\* then fails with that message and sends no code exchange.
C25_ErrorParamSettlesAsProviderError ==
  [][/\ (Answered /\ response'.req.path = "/callback" /\ response'.req.error # "null")
        => /\ response'.reply = [status |-> 200, page |-> "Authorization Failed"]
           /\ promise'[response'.flow] = Rejected(ProviderError(response'.req))
           /\ server'[response'.flow] = "closed"
     /\ RejectionFailsFlow]_vars

\* C25, amended: every /callback request whose query contains an error
\* parameter with a non-empty value, with or without a code, is answered 200
\* with the failure page; when it is handled while the listener is still
\* unsettled it settles the listener as the provider error, clears the
\* timer and closes the server, and the flow then fails with that message
\* and sends no code exchange.
C25_ErrorParamAmended ==
  [][/\ (Answered /\ response'.req.path = "/callback" /\ Has(response'.req.error))
        => /\ response'.reply = [status |-> 200, page |-> "Authorization Failed"]
           /\ promise[response'.flow].status = "pending"
              => /\ promise'[response'.flow] = Rejected(ProviderError(response'.req))
                 /\ timer'[response'.flow] = "cleared"
                 /\ server'[response'.flow] = "closed"
     /\ RejectionFailsFlow]_vars

\* C25 witness: a callback with error, error_description and a code was
\* answered with the failure page, and the flow has failed with the message
\* naming both values, its server closed and no exchange sent.
C25_Witness ==
  /\ response # NoResponse
  /\ response.req.error = "access_denied"
  /\ response.req.error_description = "User declined"
  /\ response.req.code = "c1"
  /\ response.reply = [status |-> 200, page |-> "Authorization Failed"]
  /\ flow[response.flow] = Done("OAuth2 error: access_denied - User declined")
  /\ server[response.flow] = "closed"
  /\ exchangePosts = 0

\* C26: a /callback request with neither an error parameter nor a code
\* parameter is answered 400 and settles the listener as a malformed
\* request; the flow then fails with the missing-authorization-code error
\* and sends no code exchange.
C26_MissingCodeSettlesAsMalformed ==
  [][/\ (Answered /\ response'.req.path = "/callback"
                  /\ response'.req.error = "null" /\ response'.req.code = "null")
        => /\ response'.reply.status = 400
           /\ promise'[response'.flow] = Rejected("Missing authorization code")
     /\ \A f \in Flows :
          (flow[f].pc = "awaiting" /\ flow'[f] # flow[f]
             /\ promise[f] = Rejected("Missing authorization code"))
          => /\ flow'[f] = Done("Missing authorization code")
             /\ exchangePosts' = exchangePosts]_vars

\* C26, amended: a /callback request with neither an error nor a code (an
\* empty value counts as none) is answered 400; when it is handled while
\* the listener is still unsettled it settles the listener as a malformed
\* request, and the flow then fails with the missing-authorization-code
\* error and sends no code exchange.
C26_MissingCodeAmended ==
  [][/\ (Answered /\ response'.req.path = "/callback"
                  /\ ~Has(response'.req.error) /\ ~Has(response'.req.code))
        => /\ response'.reply.status = 400
           /\ promise[response'.flow].status = "pending"
              => promise'[response'.flow] = Rejected("Missing authorization code")
     /\ \A f \in Flows :
          (flow[f].pc = "awaiting" /\ flow'[f] # flow[f]
             /\ promise[f] = Rejected("Missing authorization code"))
          => /\ flow'[f] = Done("Missing authorization code")
             /\ exchangePosts' = exchangePosts]_vars

\* C26 witness: a callback without error and code was answered 400 and the
\* flow has failed with the missing-code error, no exchange sent.
C26_Witness ==
  /\ response # NoResponse
  /\ response.req.path = "/callback"
  /\ response.req.error = "null"
  /\ response.req.code = "null"
  /\ response.reply.status = 400
  /\ flow[response.flow] = Done("Missing authorization code")
  /\ exchangePosts = 0

\* C27: a /callback request with a code and a state and no error, handled
\* while the listener is still unsettled, is answered 200 with the success
\* page, clears the timer, closes the server, and settles the listener with
\* exactly the code and the state received.
C27_CodeAndStateResolve ==
  [][(Answered /\ response'.req.path = "/callback"
               /\ ~Has(response'.req.error)
               /\ Has(response'.req.code) /\ Has(response'.req.state)
               /\ promise[response'.flow].status = "pending")
     => /\ response'.reply = [status |-> 200, page |-> "Authorization Successful!"]
        /\ timer'[response'.flow] = "cleared"
        /\ server'[response'.flow] = "closed"
        /\ promise'[response'.flow] =
             [status |-> "resolved", code |-> response'.req.code,
              receivedState |-> response'.req.state]]_vars

\* C27 witness: a callback with code and a forged state was answered with
\* the success page and the listener holds exactly that code and state,
\* timer cleared and server closed.
C27_Witness ==
  /\ response # NoResponse
  /\ response.reply = [status |-> 200, page |-> "Authorization Successful!"]
  /\ promise[response.flow] =
       [status |-> "resolved", code |-> "c1", receivedState |-> "forged"]
  /\ response.req.state = "forged"
  /\ timer[response.flow] = "cleared"
  /\ server[response.flow] = "closed"

\* C28: liveness of the listener: once the callback server listens, its
\* result is eventually settled and the server closed, under fairness of the
\* timer, whether or not any request arrives.
C28_ListenerEventuallyClosed ==
  \A f \in Flows :
    (server[f] = "listening")
      ~> (promise[f].status \in Settled /\ server[f] = "closed")

\* C29: the authorization nonce is per attempt and used once: an attempt
\* that reaches the listener holds a nonce no other attempt in flight
\* holds; when it resumes it goes on to the code exchange exactly when the
\* received state equals its own nonce, it keeps no nonce afterwards, and a
\* callback that carries the nonce of another attempt is refused as a state
\* mismatch.
C29_NoncePerAttempt ==
  [][\A f \in Flows :
       /\ (flow[f].pc # "awaiting" /\ flow'[f].pc = "awaiting")
          => \A g \in Flows \ {f} :
               flow'[g].pc = "awaiting" => flow'[g].state # flow'[f].state
       /\ (flow[f].pc = "awaiting" /\ flow'[f] # flow[f])
          => /\ "state" \notin DOMAIN flow'[f]
             /\ flow'[f].pc = "exchanging"
                  <=> ( /\ promise[f].status = "resolved"
                        /\ promise[f].receivedState = flow[f].state )
             /\ \A g \in Flows \ {f} :
                  ( /\ promise[f].status = "resolved"
                    /\ flow[g].pc # "idle"
                    /\ promise[f].receivedState = generateState(g) )
                  => /\ flow'[f] = Done("OAuth2 state mismatch")
                     /\ exchangePosts' = exchangePosts]_vars

\* C29 witness: two attempts were started; one received a callback with
\* the nonce of the other and failed with a state mismatch, while the other
\* received its own nonce and went on to the exchange.
C29_Witness ==
  \E f \in Flows, g \in Flows :
    /\ g # f
    /\ promise[f].status = "resolved"
    /\ promise[f].receivedState = generateState(g)
    /\ flow[f] = Done("OAuth2 state mismatch")
    /\ promise[g].status = "resolved"
    /\ promise[g].receivedState = generateState(g)
    /\ flow[g].pc = "exchanging"
    /\ exchangePosts = 1

\* C30: in every reachable state the in-memory token is either absent or a
\* complete record with all five fields set, so that no reader ever sees a
\* record with a part missing or mixed.
C30_TokenAbsentOrComplete ==
  token = NULL \/ DOMAIN token = Fields

\* A step in which caller c's status call returns.
StatusReturns(c) ==
  /\ calls'[c] # calls[c]
  /\ calls'[c].pc = "done"
  /\ "tool" \in DOMAIN calls'[c]
  /\ calls'[c].tool = "status"

\* C31: the queries are pure: a status call, which runs hasValidToken,
\* getTokenInfo, isExpired and isUsingStaticToken, leaves the token, the mode
\* and the token file as they were and sends no request; and hasValidToken
\* is true exactly when a token is held, expired or not, so an OAuth-mode
\* status reads "Connected" exactly when a token is held.
C31_QueriesArePure ==
  [][\A c \in Callers :
       StatusReturns(c)
       => /\ token' = token
          /\ usingStaticToken' = usingStaticToken
          /\ tokenFile' = tokenFile
          /\ refreshPosts' = refreshPosts
          /\ exchangePosts' = exchangePosts
          /\ ~usingStaticToken
             => /\ calls'[c].result \in {"Connected: Expired", "Connected: Valid"}
                  <=> token # NULL
                /\ calls'[c].result = "Not connected" <=> token = NULL
                /\ needsAuthorization <=> token = NULL]_vars

\* C31 witness: a status call found a token that is held and past its
\* expiry, reported it as connected and expired, and the token is still
\* held and no refresh was sent.
C31_Witness ==
  \E c \in Callers :
    /\ calls[c] = ToolResult("status", "Connected: Expired", "none")
    /\ token # NULL
    /\ now >= token.expires_at
    /\ tokenFile = FileOf(JSONStringify(token))
    /\ refreshPosts = 0

\* C32: every record installed by a successful exchange or refresh has
\* expires_at strictly greater than the clock at the moment it is installed,
\* whatever expires_in the token endpoint returns.
C32_InstalledExpiryInFuture ==
  [][(token' # token /\ token' # NULL) => token'.expires_at > now']_vars

\* C33: in every reachable state a held record has a non-empty
\* access_token, and its refresh_token is empty exactly in static mode: in
\* OAuth mode every record held, whether loaded, exchanged or refreshed,
\* carries a non-empty refresh_token.
C33_RefreshTokenEmptyIffStatic ==
  token # NULL
  => /\ token.access_token # ""
     /\ token.refresh_token = "" <=> usingStaticToken

\* A step in which a flow's code exchange succeeds.
ExchangeSucceeds ==
  \E f \in Flows :
    /\ flow[f].pc = "exchanging"
    /\ flow'[f] = Returned("Authorization successful!", "ok")

\* C34: logout is not undone by work in flight: once no token is held, the
\* token stays absent and no token file appears until an authorization flow
\* succeeds, also when a refresh that was started earlier is answered with
\* success afterwards.
C34_LogoutNotUndone ==
  [][/\ (token = NULL /\ token' # NULL) => ExchangeSucceeds
     /\ (token = NULL /\ ~tokenFile.exists /\ tokenFile'.exists) => ExchangeSucceeds]_vars

\* C35: a non-success answer to a refresh clears only the token the refresh
\* was sent for: when a newer token has been installed while the request
\* was in flight, the late failure leaves that token and its file alone.
C35_LateFailureKeepsNewerToken ==
  [][\A c \in Callers :
       ( /\ RefreshAnswered(c, "error")
         /\ token # NULL
         /\ token.refresh_token # calls[c].sent )
       => /\ token' = token
          /\ tokenFile' = tokenFile]_vars

\* A step in which caller c's getAccessToken call ends.
CallEnds(c) == calls[c].pc \in {"idle", "refreshing"} /\ calls'[c].pc = "done"

Agree(t, f) ==
  \/ t = NULL /\ ~f.exists
  \/ t # NULL /\ f = FileOf(JSONStringify(t))

\* No token-manager operation is in progress.
Quiescent ==
  /\ \A c \in Callers : calls[c].pc # "refreshing"
  /\ \A f \in Flows : flow[f].pc # "exchanging"

\* C37: in OAuth mode, whenever no token-manager operation is in progress,
\* the token file and the in-memory token agree: both are absent or the
\* file holds exactly the held record, also in runs in which a file write
\* or a file delete fails.
C37_FileAndTokenAgree ==
  (~usingStaticToken /\ Quiescent) => Agree(token, tokenFile)

\* C37, amended: every step of load, exchange, refresh or clearTokens that
\* changes the held token or the token file leaves the two in agreement,
\* unless its file operation failed: then the file is as it was before the
\* step (write or delete threw) or cut short (write failed part-way), and
\* token and file differ until a later save or delete succeeds.
C37_FileAndTokenAgreeAmended ==
  [][(~usingStaticToken /\ (token' # token \/ tokenFile' # tokenFile))
     => \/ Agree(token', tokenFile')
        \/ tokenFile' = tokenFile
        \/ tokenFile' = FileOf(Truncated)]_vars

\* C37 witness: a refresh installed and saved a new record, a later refresh
\* failed and cleared it, and now nothing is in progress, no token is held
\* and no token file exists.
C37_Witness ==
  \E c \in Callers :
    /\ ~usingStaticToken
    /\ Quiescent
    /\ calls[c] = Returned("RefreshFailed", "error")
    /\ issued >= 1
    /\ Agree(token, tokenFile)
    /\ token = NULL

\* C38: when the refresh request fails in transport (fetch rejects, no
\* HTTP response), getAccessToken fails and leaves the held token and the
\* token file as they were, so that a later getAccessToken on the same
\* token sends its refresh_token again; a refresh step makes a held token
\* absent only on a non-success HTTP answer.
C38_TransportFailureKeepsToken ==
  [][\A c \in Callers :
       /\ RefreshAnswered(c, "none")
          => /\ calls'[c].result = "FetchError"
             /\ token' = token
             /\ tokenFile' = tokenFile
       /\ (calls[c].pc = "idle" /\ calls'[c].pc = "refreshing")
          => /\ token # NULL
             /\ calls'[c].sent = token.refresh_token
       /\ (calls[c].pc = "refreshing" /\ calls'[c].pc = "done"
             /\ token # NULL /\ token' = NULL)
          => calls'[c].http = "error"]_vars

\* C38 witness: two refreshes were sent with the loaded refresh_token; one
\* was rejected in transport and its call has failed and returned, the
\* other is in flight with the same refresh_token; the token and its file
\* are as loaded.
C38_Witness ==
  \E c \in Callers, d \in Callers :
    /\ c # d
    /\ calls[d] = Idle
    /\ calls[c].pc = "refreshing"
    /\ refreshPosts = 2
    /\ issued = 0
    /\ token # NULL
    /\ calls[c].sent = token.refresh_token
    /\ token.access_token = "at0"
    /\ tokenFile = FileOf(JSONStringify(token))

\* C39: a /callback request with a code and no state never leads to a code
\* exchange: handled while the listener is unsettled it settles the
\* listener with the empty received state, handled later it settles
\* nothing; the nonce is never empty, and a flow that resumes on an empty
\* received state fails with the state mismatch error, sends no exchange
\* and leaves token and token file as they were.
C39_CodeWithoutStateNeverExchanged ==
  [][/\ (Answered /\ response'.req.path = "/callback"
                  /\ ~Has(response'.req.error)
                  /\ Has(response'.req.code) /\ response'.req.state = "null")
        => /\ promise'[response'.flow] =
                IF promise[response'.flow].status = "pending"
                THEN [status |-> "resolved", code |-> response'.req.code,
                      receivedState |-> ""]
                ELSE promise[response'.flow]
           /\ flow' = flow
           /\ exchangePosts' = exchangePosts
     /\ \A f \in Flows :
          /\ flow'[f].pc = "awaiting" => flow'[f].state # ""
          /\ ( /\ flow[f].pc = "awaiting"
               /\ flow'[f] # flow[f]
               /\ promise[f].status = "resolved"
               /\ promise[f].receivedState = "" )
             => /\ flow'[f] = Done("OAuth2 state mismatch")
                /\ exchangePosts' = exchangePosts
                /\ token' = token
                /\ tokenFile' = tokenFile]_vars

\* C39 witness: a callback with a code and no state was answered with the
\* success page, the listener resolved with the empty state, and the flow
\* has failed with the state mismatch, no exchange sent.
C39_Witness ==
  /\ response # NoResponse
  /\ response.req.code = "c1"
  /\ response.req.state = "null"
  /\ response.reply.status = 200
  /\ promise[response.flow] = [status |-> "resolved", code |-> "c1", receivedState |-> ""]
  /\ flow[response.flow] = Done("OAuth2 state mismatch")
  /\ exchangePosts = 0

\* C40: the pagination loop of handleWorkoutSummary always terminates.  The
\* first request is for page 1 and each further request is for the page
\* after the one just answered; the loop stops as soon as an answer has no
\* pagination metadata or the page number has reached total_pages; no page
\* above 20 is ever requested, whatever total_pages the answers report; and
\* a call that waits for a page eventually ends.
SummaryStep(c) ==
  /\ (calls[c].pc = "idle" /\ calls'[c].pc = "paging") => calls'[c].page = 1
  /\ (calls[c].pc = "paging" /\ calls'[c].pc = "paging"
        /\ calls'[c] # calls[c]) =>
       /\ calls'[c].page = calls[c].page + 1
       /\ calls'[c].meta.has /\ ~ReachedTotal(calls[c].page, calls'[c].meta)
  /\ (calls[c].pc = "paging" /\ calls'[c].pc = "done"
        /\ calls'[c].result = "data") =>
       /\ calls'[c].requested = calls[c].page
       /\ \/ ~calls'[c].meta.has
          \/ ReachedTotal(calls[c].page, calls'[c].meta)
          \/ calls[c].page = 20
  /\ calls'[c].pc = "paging" => calls'[c].page \in 1..20
  /\ (calls'[c].pc = "done" /\ "requested" \in DOMAIN calls'[c]) =>
       calls'[c].requested \in 0..20

C40_PaginationTerminates ==
  /\ [][\A c \in Callers : SummaryStep(c)]_vars
  /\ \A c \in Callers : (calls[c].pc = "paging") ~> (calls[c].pc = "done")

\* Twenty pages were requested, the last answer still reported more pages,
\* and the loop stopped.
C40_Witness ==
  \E c \in Callers :
    /\ calls[c].pc = "done" /\ "requested" \in DOMAIN calls[c]
    /\ calls[c].result = "data" /\ calls[c].requested = 20
    /\ calls[c].meta.has /\ ~ReachedTotal(20, calls[c].meta)

====
